---- MODULE Spec2Model ----
(***************************************************************************)
(* findupe: the concurrent hashing pipeline of src/main.go.                *)
(*                                                                         *)
(*   walkFiles/walkFn --hashReqCh--> hashingWorker x Threads               *)
(*                    --hashRepCh--> aggregateHashes                       *)
(*                                                                         *)
(* One goroutine walks the tree, `workers` spawns Threads hashing workers  *)
(* and closes the reply channel when the wait group drains, and main runs  *)
(* aggregateHashes.  Channels are FIFO sequences with a capacity and a     *)
(* closed flag.  A panic (nil-pointer dereference, send on or close of a   *)
(* closed channel) runs the panicking goroutine's deferred calls and then  *)
(* ends the process: `crashed`.                                            *)
(***************************************************************************)
EXTENDS Integers, Sequences, FiniteSets, TLC

\* ------------------------------------------------------------------ bounds
\* Largest number of entries filepath.Walk reports.
MaxEntries == 3
\* Capacity of the request channel (65536 in main, scaled down so that the
\* walker does block on it).
ReqCap == 1

\* ------------------------------------------------------------ the alphabets
\* The values of --threads tried (main refuses a value below 1).
ThreadCounts == {1, 2}
\* The file sizes tried, in bytes, and the largest of them.
Sizes == {0, 1, 2}
Max(S) == CHOOSE s \in S : \A x \in S : x <= s
MaxSize == Max(Sizes)
\* The contents tried for a file of a given size, by number.
Contents == {0, 1, 2}

\* ------------------------------------------------------- program constants
\* Width of the zero-padded size in "%016d.%s".
PadWidth == 16
\* The reply channel holds *Threads * 2 results.
RepFactor == 2

Nil == [nil |-> TRUE]

VARIABLES
    Threads,         \* *Threads, >= 1 (main panics before the pipeline otherwise)
    MinBytes,        \* *MinBytes after main's clamp of negative values
    Thorough,        \* *Thorough
    tree,            \* the entries filepath.Walk reports, in walk order
    walkerPc,        \* walkFiles: "walk", "send", "panic", "done"
    walkPos,         \* index of the entry walkFn is called with next
    pending,         \* the request walkFn is blocked sending, or Nil
    totalFiles, underSizedFiles, hashingFiles,
    errSkipped,      \* history: number of returns taken at main.go:122
    hashReqCh, reqClosed,
    hashRepCh, repClosed,
    workerGroup,     \* the sync.WaitGroup counter
    poolPc,          \* workers: "start", "wait", "done"
    wpc,             \* per worker: "unborn","recv","open","copy","send","exited"
    wreq,            \* per worker: the request it owns, or Nil
    wpass,           \* per worker: 1 = sha512 pass, 2 = md5 pass
    whash,           \* per worker: hashString built so far
    handles,         \* per worker: number of os.File handles it holds open
    singles, collisions,
    aggPc,           \* aggregateHashes: "loop", "done"
    collidingFiles, duplicates,
    crashed,         \* the process died of an unrecovered panic
    pulled,          \* history: per entry, how often a worker received it
    replied,         \* history: per entry, how often it was sent on hashRepCh
    consumed,        \* history: the results aggregateHashes received, in order
    reqCloses,       \* history: number of close(requests) executed
    repCloses,       \* history: number of close(replies) executed
    lateSend         \* history: a worker sent on the closed reply channel

config == <<Threads, MinBytes, Thorough, tree>>
walker == <<walkerPc, walkPos, pending, totalFiles, underSizedFiles, hashingFiles, errSkipped>>
chans == <<hashReqCh, reqClosed, hashRepCh, repClosed>>
pool == <<workerGroup, poolPc>>
wstate == <<wpc, wreq, wpass, whash, handles>>
agg == <<singles, collisions, aggPc, collidingFiles, duplicates>>
hist == <<pulled, replied, consumed, reqCloses, repCloses, lateSend>>
vars == <<config, walker, chans, pool, wstate, agg, crashed, hist>>

\* ------------------------------------------------------------ pure helpers
Digits == <<"0", "1", "2", "3", "4", "5", "6", "7", "8", "9">>

RECURSIVE DecimalOf(_)
DecimalOf(n) ==
    IF n < 10 THEN <<Digits[n + 1]>>
    ELSE DecimalOf(n \div 10) \o <<Digits[(n % 10) + 1]>>

\* A slip: "%d" for "%016d", no padding.
ZeroPadNone(n) == DecimalOf(n)

\* fmt's "%016d" for a non-negative number: at least PadWidth digits.
ZeroPad(n) ==
    LET d == DecimalOf(n)
    IN  IF Len(d) >= PadWidth THEN d
        ELSE [i \in 1..(PadWidth - Len(d)) |-> "0"] \o d

\* strings.ReplaceAll(p, "\\", "/")
ReplaceAll(p) == [i \in 1..Len(p) |-> IF p[i] = "\\" THEN "/" ELSE p[i]]

Names == <<"a", "b", "c", "d", "e", "f", "g", "h">>

\* The path filepath.Walk reports for the i-th entry: distinct names, with
\* either separator (Walk joins with the platform's).
PathAt(i) == <<"r", IF i % 2 = 1 THEN "\\" ELSE "/", Names[i]>>

\* The digest primitives, opaque to the program: total functions of the
\* file's bytes into a smaller range.  Contents 2k and 2k+1 share a sha512
\* digest and differ in md5; the pair of digests identifies the content.
Sha512Sum(content) == content \div 2
Md5Sum(content) == content % 2

HexDigits == <<"0", "1", "2", "3", "4", "5", "6", "7", "8", "9", "a", "b", "c", "d", "e", "f">>

\* hex.EncodeToString of a digest
RECURSIVE EncodeToString(_)
EncodeToString(sum) ==
    IF sum < 16 THEN <<HexDigits[sum + 1]>>
    ELSE EncodeToString(sum \div 16) \o <<HexDigits[(sum % 16) + 1]>>

\* ------------------------------------------------------------- the inputs
\* Where reading a file fails: never, in os.Open or in io.Copy of the sha512
\* pass, or (the file changed in between) in io.Copy of the md5 pass.
FailPoints == {"none", "open1", "read1", "read2"}

\* What filepath.Walk hands to walkFn: info is nil (lstat failed), a
\* directory, or a file; fileErr is nil or not.  A file has a size, a content
\* and a place where reading it fails.  Contents vary among the largest
\* files; read failures are tried on one of them.
NilEntry == [kind |-> "nil", err |-> TRUE, size |-> 0, content |-> 0, failAt |-> "none"]
DirEntry == [kind |-> "dir", err |-> FALSE, size |-> 0, content |-> 0, failAt |-> "none"]
ErrEntry == [kind |-> "file", err |-> TRUE, size |-> MaxSize, content |-> 0, failAt |-> "none"]
FileEntries ==
    {[kind |-> "file", err |-> FALSE, size |-> s, content |-> c, failAt |-> f] :
        s \in Sizes, c \in Contents, f \in FailPoints}
Entries ==
    {NilEntry, DirEntry, ErrEntry} \cup
    {e \in FileEntries :
        /\ e.size < MaxSize => e.content = 0
        /\ e.failAt # "none" => e.content = 0 /\ e.size = MaxSize}

\* Walk reports a directory's entries in the order of their names.  The
\* trees tried list their entries in one fixed order of kinds: directories,
\* inaccessible files, files by size, content and read outcome, and last the
\* entry whose lstat failed (nothing is walked after it).
KindRank(e) ==
    IF e.kind = "dir" THEN 0
    ELSE IF e.kind = "nil" THEN 3
    ELSE IF e.err THEN 1 ELSE 2
FailRank(f) ==
    IF f = "none" THEN 0 ELSE IF f = "open1" THEN 1 ELSE IF f = "read1" THEN 2 ELSE 3
EntryKey(e) == ((KindRank(e) * 10 + e.size) * 10 + e.content) * 10 + FailRank(e.failAt)

Trees ==
    {t \in UNION {[1..n -> Entries] : n \in 0..MaxEntries} :
        \A i \in 1..(Len(t) - 1) : EntryKey(t[i]) <= EntryKey(t[i + 1])}

\* --min-bytes as given on the command line.
MinBytesFlags == {-1, MaxSize}

Ids == 1..Len(tree)

\* ------------------------------------------------------------------- Init
Init ==
    /\ Threads \in ThreadCounts
    /\ \E flag \in MinBytesFlags : MinBytes = IF flag < 0 THEN 0 ELSE flag
    /\ Thorough \in BOOLEAN
    /\ tree \in Trees
    \* without --thorough there is no md5 pass to fail
    /\ \A i \in DOMAIN tree : tree[i].failAt = "read2" => Thorough
    /\ walkerPc = "walk" /\ walkPos = 1 /\ pending = Nil
    /\ totalFiles = 0 /\ underSizedFiles = 0 /\ hashingFiles = 0 /\ errSkipped = 0
    /\ hashReqCh = <<>> /\ reqClosed = FALSE
    /\ hashRepCh = <<>> /\ repClosed = FALSE
    /\ workerGroup = 0 /\ poolPc = "start"
    /\ wpc = [w \in 1..Threads |-> "unborn"]
    /\ wreq = [w \in 1..Threads |-> Nil]
    /\ wpass = [w \in 1..Threads |-> 1]
    /\ whash = [w \in 1..Threads |-> <<>>]
    /\ handles = [w \in 1..Threads |-> 0]
    /\ singles = <<>> /\ collisions = <<>>
    /\ aggPc = "loop" /\ collidingFiles = 0 /\ duplicates = 0
    /\ crashed = FALSE
    /\ pulled = [i \in Ids |-> 0]
    /\ replied = [i \in Ids |-> 0]
    /\ consumed = <<>>
    /\ reqCloses = 0
    /\ repCloses = 0
    /\ lateSend = FALSE

\* The process is alive: no unrecovered panic, and main has not returned.
Running == ~crashed /\ aggPc # "done"


\* ------------------------------------------------- walkFiles and walkFn
\* A slip: only the comparison with *MinBytes, the zero-length test left out.
IsUnderSizedNoZeroTest(size) == size < MinBytes

\* info.Size() == 0 || info.Size() < int64(*MinBytes)
IsUnderSized(size) == size = 0 \/ size < MinBytes

\* &FileHash{Pathname: path, Size: info.Size()}; id stands for the pointer.
NewRequest(i) == [id |-> i, Pathname |-> PathAt(i), Size |-> tree[i].size, Hash |-> <<>>]

Walking == Running /\ walkerPc = "walk" /\ walkPos <= Len(tree)

\* info is nil: info.IsDir() dereferences a nil pointer.  The panic unwinds
\* walkFiles, whose deferred close(requests) runs, and then ends the process.
WalkPanic ==
    /\ Walking /\ tree[walkPos].kind = "nil"
    /\ walkerPc' = "panic"
    /\ reqClosed' = TRUE
    /\ reqCloses' = reqCloses + 1
    /\ UNCHANGED <<config, walkPos, pending, totalFiles, underSizedFiles, hashingFiles,
                   errSkipped, hashReqCh, hashRepCh, repClosed, pool, wstate, agg,
                   crashed, pulled, replied, consumed, repCloses, lateSend>>

Crash ==
    /\ Running /\ walkerPc = "panic"
    /\ crashed' = TRUE
    /\ UNCHANGED <<config, walker, chans, pool, wstate, agg, hist>>

\* if info.IsDir() { return }
WalkDir ==
    /\ Walking /\ tree[walkPos].kind = "dir"
    /\ walkPos' = walkPos + 1
    /\ UNCHANGED <<config, walkerPc, pending, totalFiles, underSizedFiles, hashingFiles,
                   errSkipped, chans, pool, wstate, agg, crashed, hist>>

\* A slip: fileErr is tested before totalFiles++.
WalkErrorUncounted ==
    /\ Walking /\ tree[walkPos].kind = "file" /\ tree[walkPos].err
    /\ errSkipped' = errSkipped + 1
    /\ walkPos' = walkPos + 1
    /\ UNCHANGED <<config, walkerPc, pending, totalFiles, underSizedFiles, hashingFiles,
                   chans, pool, wstate, agg, crashed, hist>>

\* totalFiles++; if fileErr != nil { return }
WalkError ==
    /\ Walking /\ tree[walkPos].kind = "file" /\ tree[walkPos].err
    /\ totalFiles' = totalFiles + 1
    /\ errSkipped' = errSkipped + 1
    /\ walkPos' = walkPos + 1
    /\ UNCHANGED <<config, walkerPc, pending, underSizedFiles, hashingFiles,
                   chans, pool, wstate, agg, crashed, hist>>

\* totalFiles++; the file is too small: underSizedFiles++; return
WalkUnderSized ==
    /\ Walking /\ tree[walkPos].kind = "file" /\ ~tree[walkPos].err
    /\ IsUnderSized(tree[walkPos].size)
    /\ totalFiles' = totalFiles + 1
    /\ underSizedFiles' = underSizedFiles + 1
    /\ walkPos' = walkPos + 1
    /\ UNCHANGED <<config, walkerPc, pending, hashingFiles, errSkipped,
                   chans, pool, wstate, agg, crashed, hist>>

\* totalFiles++; hashingFiles++; request := &FileHash{...}; then the send.
WalkEligible ==
    /\ Walking /\ tree[walkPos].kind = "file" /\ ~tree[walkPos].err
    /\ ~IsUnderSized(tree[walkPos].size)
    /\ totalFiles' = totalFiles + 1
    /\ hashingFiles' = hashingFiles + 1
    /\ pending' = NewRequest(walkPos)
    /\ walkerPc' = "send"
    /\ UNCHANGED <<config, walkPos, underSizedFiles, errSkipped,
                   chans, pool, wstate, agg, crashed, hist>>

\* hashReqCh <- request: blocks while the channel is full.
WalkSend ==
    /\ Running /\ walkerPc = "send"
    /\ Len(hashReqCh) < ReqCap
    /\ hashReqCh' = Append(hashReqCh, pending)
    /\ pending' = Nil
    /\ walkerPc' = "walk"
    /\ walkPos' = walkPos + 1
    /\ UNCHANGED <<config, totalFiles, underSizedFiles, hashingFiles, errSkipped,
                   reqClosed, hashRepCh, repClosed, pool, wstate, agg, crashed, hist>>

\* A slip: walkFiles returns without closing the request channel.
WalkCloseForgotten ==
    /\ Running /\ walkerPc = "walk" /\ walkPos > Len(tree)
    /\ walkerPc' = "done"
    /\ UNCHANGED <<config, walkPos, pending, totalFiles, underSizedFiles, hashingFiles,
                   errSkipped, chans, pool, wstate, agg, crashed, hist>>

\* filepath.Walk returned: log the totals; the deferred close(requests).
WalkClose ==
    /\ Running /\ walkerPc = "walk" /\ walkPos > Len(tree)
    /\ reqClosed' = TRUE
    /\ reqCloses' = reqCloses + 1
    /\ walkerPc' = "done"
    /\ UNCHANGED <<config, walkPos, pending, totalFiles, underSizedFiles, hashingFiles,
                   errSkipped, hashReqCh, hashRepCh, repClosed, pool, wstate, agg,
                   crashed, pulled, replied, consumed, repCloses, lateSend>>

\* ------------------------------------------------------------- workers
\* workerGroup.Add(*Threads); for i := 0; i < *Threads; i++ { go
\* hashingWorker(requests, replies) }.  The counter is raised before the
\* first worker starts and nothing reads it before Wait, so the statements
\* are taken as one step.
PoolStart ==
    /\ Running /\ poolPc = "start"
    /\ workerGroup' = workerGroup + Threads
    /\ wpc' = [w \in 1..Threads |-> "recv"]
    /\ poolPc' = "wait"
    /\ UNCHANGED <<config, walker, chans, wreq, wpass, whash, handles, agg, crashed, hist>>

\* A slip: the reply channel is closed without waiting for the workers.
WaitReturnsAtOnce == TRUE

\* workerGroup.Wait() returns once the counter is zero.
WaitReturns == workerGroup = 0

\* workerGroup.Wait(); then the deferred close(replies).  Closing a closed
\* channel panics.
PoolClose ==
    /\ Running /\ poolPc = "wait"
    /\ WaitReturns
    /\ repClosed' = TRUE
    /\ repCloses' = repCloses + 1
    /\ crashed' = (crashed \/ repClosed)
    /\ poolPc' = "done"
    /\ UNCHANGED <<config, walker, hashReqCh, reqClosed, hashRepCh, workerGroup,
                   wstate, agg, pulled, replied, consumed, reqCloses, lateSend>>


\* ---------------------------------------------- hashData and hashRequest
\* The file a path names: the platform takes either separator.
FileOf(pathname) == tree[CHOOSE i \in Ids : ReplaceAll(PathAt(i)) = pathname]

\* os.Open(pathname) returns an error.
OpenFails(pathname, pass) ==
    LET f == FileOf(pathname).failAt IN f = "open1" \/ (pass = 2 /\ f = "open2")

\* io.Copy(hasher, file) returns an error.
CopyFails(pathname, pass) ==
    LET f == FileOf(pathname).failAt IN f = "read1" \/ (pass = 2 /\ f = "read2")

\* hasher.Sum(nil) after the whole file was written to the hasher:
\* pass 1 is sha512.New(), pass 2 is md5.New().
SumOf(pathname, pass) ==
    LET c == FileOf(pathname).content
    IN  IF pass = 1 THEN Sha512Sum(c) ELSE Md5Sum(c)

\* hashData(pathname, hasher) as a whole: (digest in hex, error).
hashData(pathname, pass) ==
    IF OpenFails(pathname, pass) \/ CopyFails(pathname, pass)
    THEN [err |-> TRUE, sum |-> <<>>]
    ELSE [err |-> FALSE, sum |-> EncodeToString(SumOf(pathname, pass))]

\* hashString += "." + md5String
\* A slip: "=" for "+=", the md5 digest takes the place of the sha512 one.
ExtendReplaces(hashString, md5String) == md5String

\* hashString += "." + md5String
Extend(hashString, md5String) == hashString \o <<".">> \o md5String

\* A slip: the fingerprint is the digest alone.
SprintfNoSize(size, hashString) == hashString

\* fmt.Sprintf("%016d.%s", size, hashString)
Sprintf(size, hashString) == ZeroPad(size) \o <<".">> \o hashString

\* request.Pathname = pathname; request.Hash = fmt.Sprintf(...)
Populate(request, pathname, hashString) ==
    [request EXCEPT !.Pathname = pathname, !.Hash = Sprintf(request.Size, hashString)]

\* hashRequest(request) as a whole: the populated request, or Nil.
hashRequest(request) ==
    LET pathname == ReplaceAll(request.Pathname)
        sha == hashData(pathname, 1)
        md5 == hashData(pathname, 2)
    IN  IF sha.err THEN Nil
        ELSE IF ~Thorough THEN Populate(request, pathname, sha.sum)
        ELSE IF md5.err THEN Nil
        ELSE Populate(request, pathname, Extend(sha.sum, md5.sum))

\* hashRequest with the value of *Thorough as an argument, to set the two
\* modes side by side on one tree.
hashRequestWith(request, thorough) ==
    LET pathname == ReplaceAll(request.Pathname)
        sha == hashData(pathname, 1)
        md5 == hashData(pathname, 2)
    IN  IF sha.err THEN Nil
        ELSE IF ~thorough THEN Populate(request, pathname, sha.sum)
        ELSE IF md5.err THEN Nil
        ELSE Populate(request, pathname, Extend(sha.sum, md5.sum))

\* ------------------------------------------------------- hashingWorker
\* for request := range requests: a request is received.
WorkerRecv(w) ==
    /\ Running /\ wpc[w] = "recv"
    /\ hashReqCh # <<>>
    /\ wreq' = [wreq EXCEPT ![w] = Head(hashReqCh)]
    /\ hashReqCh' = Tail(hashReqCh)
    /\ pulled' = [pulled EXCEPT ![Head(hashReqCh).id] = @ + 1]
    /\ wpass' = [wpass EXCEPT ![w] = 1]
    /\ whash' = [whash EXCEPT ![w] = <<>>]
    /\ wpc' = [wpc EXCEPT ![w] = "open"]
    /\ UNCHANGED <<config, walker, reqClosed, hashRepCh, repClosed, pool, handles, agg,
                   crashed, replied, consumed, reqCloses, repCloses, lateSend>>

\* A slip: the worker gives up as soon as the request channel is empty.
WorkerExitWhenEmpty(w) ==
    /\ Running /\ wpc[w] = "recv"
    /\ hashReqCh = <<>>
    /\ wpc' = [wpc EXCEPT ![w] = "exited"]
    /\ workerGroup' = workerGroup - 1
    /\ UNCHANGED <<config, walker, chans, poolPc, wreq, wpass, whash, handles,
                   agg, crashed, hist>>

\* The range loop ends: the channel is closed and drained.  The deferred
\* workerGroup.Done().
WorkerExit(w) ==
    /\ Running /\ wpc[w] = "recv"
    /\ hashReqCh = <<>> /\ reqClosed
    /\ wpc' = [wpc EXCEPT ![w] = "exited"]
    /\ workerGroup' = workerGroup - 1
    /\ UNCHANGED <<config, walker, chans, poolPc, wreq, wpass, whash, handles,
                   agg, crashed, hist>>

\* hashData: os.Open.  On an error hashRequest logs and returns nil, and the
\* worker goes on to the next request.
WorkerOpen(w) ==
    /\ Running /\ wpc[w] = "open"
    /\ LET pathname == ReplaceAll(wreq[w].Pathname)
       IN  IF OpenFails(pathname, wpass[w])
           THEN /\ wpc' = [wpc EXCEPT ![w] = "recv"]
                /\ wreq' = [wreq EXCEPT ![w] = Nil]
                /\ whash' = [whash EXCEPT ![w] = <<>>]
                /\ UNCHANGED handles
           ELSE /\ wpc' = [wpc EXCEPT ![w] = "copy"]
                /\ handles' = [handles EXCEPT ![w] = @ + 1]
                /\ UNCHANGED <<wreq, whash>>
    /\ UNCHANGED <<config, walker, chans, pool, wpass, agg, crashed, hist>>

\* A slip: hashRequest's nil return is not tested, the request is sent on
\* as it is when the read fails.
WorkerCopyRepliesOnError(w) ==
    /\ Running /\ wpc[w] = "copy"
    /\ handles' = [handles EXCEPT ![w] = @ - 1]
    /\ LET pathname == ReplaceAll(wreq[w].Pathname)
           digest == EncodeToString(SumOf(pathname, wpass[w]))
           hashString == IF wpass[w] = 1 THEN digest ELSE Extend(whash[w], digest)
       IN  IF CopyFails(pathname, wpass[w])
           THEN /\ wpc' = [wpc EXCEPT ![w] = "send"]
                /\ whash' = [whash EXCEPT ![w] = <<>>]
                /\ UNCHANGED <<wreq, wpass>>
           ELSE IF Thorough /\ wpass[w] = 1
           THEN /\ wpc' = [wpc EXCEPT ![w] = "open"]
                /\ wpass' = [wpass EXCEPT ![w] = 2]
                /\ whash' = [whash EXCEPT ![w] = hashString]
                /\ UNCHANGED wreq
           ELSE /\ wpc' = [wpc EXCEPT ![w] = "send"]
                /\ wreq' = [wreq EXCEPT ![w] = Populate(@, pathname, hashString)]
                /\ whash' = [whash EXCEPT ![w] = <<>>]
                /\ UNCHANGED wpass
    /\ UNCHANGED <<config, walker, chans, pool, agg, crashed, hist>>

\* A slip: file.Close() is called after a successful io.Copy only.
WorkerCopyLeaksOnError(w) ==
    /\ Running /\ wpc[w] = "copy"
    /\ handles' = [handles EXCEPT ![w] = IF CopyFails(ReplaceAll(wreq[w].Pathname), wpass[w]) THEN @ ELSE @ - 1]
    /\ LET pathname == ReplaceAll(wreq[w].Pathname)
           digest == EncodeToString(SumOf(pathname, wpass[w]))
           hashString == IF wpass[w] = 1 THEN digest ELSE Extend(whash[w], digest)
       IN  IF CopyFails(pathname, wpass[w])
           THEN /\ wpc' = [wpc EXCEPT ![w] = "recv"]
                /\ wreq' = [wreq EXCEPT ![w] = Nil]
                /\ whash' = [whash EXCEPT ![w] = <<>>]
                /\ UNCHANGED wpass
           ELSE IF Thorough /\ wpass[w] = 1
           THEN /\ wpc' = [wpc EXCEPT ![w] = "open"]
                /\ wpass' = [wpass EXCEPT ![w] = 2]
                /\ whash' = [whash EXCEPT ![w] = hashString]
                /\ UNCHANGED wreq
           ELSE /\ wpc' = [wpc EXCEPT ![w] = "send"]
                /\ wreq' = [wreq EXCEPT ![w] = Populate(@, pathname, hashString)]
                /\ whash' = [whash EXCEPT ![w] = <<>>]
                /\ UNCHANGED wpass
    /\ UNCHANGED <<config, walker, chans, pool, agg, crashed, hist>>

\* hashData: io.Copy, hex.EncodeToString(hasher.Sum(nil)) and the deferred
\* file.Close(); then what hashRequest does with the digest.
WorkerCopy(w) ==
    /\ Running /\ wpc[w] = "copy"
    /\ handles' = [handles EXCEPT ![w] = @ - 1]
    /\ LET pathname == ReplaceAll(wreq[w].Pathname)
           digest == EncodeToString(SumOf(pathname, wpass[w]))
           hashString == IF wpass[w] = 1 THEN digest ELSE Extend(whash[w], digest)
       IN  IF CopyFails(pathname, wpass[w])
           THEN /\ wpc' = [wpc EXCEPT ![w] = "recv"]
                /\ wreq' = [wreq EXCEPT ![w] = Nil]
                /\ whash' = [whash EXCEPT ![w] = <<>>]
                /\ UNCHANGED wpass
           ELSE IF Thorough /\ wpass[w] = 1
           THEN /\ wpc' = [wpc EXCEPT ![w] = "open"]
                /\ wpass' = [wpass EXCEPT ![w] = 2]
                /\ whash' = [whash EXCEPT ![w] = hashString]
                /\ UNCHANGED wreq
           ELSE /\ wpc' = [wpc EXCEPT ![w] = "send"]
                /\ wreq' = [wreq EXCEPT ![w] = Populate(@, pathname, hashString)]
                /\ whash' = [whash EXCEPT ![w] = <<>>]
                /\ UNCHANGED wpass
    /\ UNCHANGED <<config, walker, chans, pool, agg, crashed, hist>>

\* A slip: a non-blocking send, the reply dropped when the channel is full.
WorkerSendOrDrop(w) ==
    /\ Running /\ wpc[w] = "send"
    /\ IF repClosed
       THEN /\ lateSend' = TRUE
            /\ crashed' = TRUE
            /\ UNCHANGED <<hashRepCh, wpc, wreq, replied>>
       ELSE /\ IF Len(hashRepCh) < Threads * RepFactor
               THEN /\ hashRepCh' = Append(hashRepCh, wreq[w])
                    /\ replied' = [replied EXCEPT ![wreq[w].id] = @ + 1]
               ELSE UNCHANGED <<hashRepCh, replied>>
            /\ wpc' = [wpc EXCEPT ![w] = "recv"]
            /\ wreq' = [wreq EXCEPT ![w] = Nil]
            /\ UNCHANGED <<lateSend, crashed>>
    /\ UNCHANGED <<config, walker, hashReqCh, reqClosed, repClosed, pool, wpass, whash,
                   handles, agg, pulled, consumed, reqCloses, repCloses>>

\* replies <- reply: blocks while the channel is full; a send on a closed
\* channel panics.
WorkerSend(w) ==
    /\ Running /\ wpc[w] = "send"
    /\ IF repClosed
       THEN /\ lateSend' = TRUE
            /\ crashed' = TRUE
            /\ UNCHANGED <<hashRepCh, wpc, wreq, replied>>
       ELSE /\ Len(hashRepCh) < Threads * RepFactor
            /\ hashRepCh' = Append(hashRepCh, wreq[w])
            /\ replied' = [replied EXCEPT ![wreq[w].id] = @ + 1]
            /\ wpc' = [wpc EXCEPT ![w] = "recv"]
            /\ wreq' = [wreq EXCEPT ![w] = Nil]
            /\ UNCHANGED <<lateSend, crashed>>
    /\ UNCHANGED <<config, walker, hashReqCh, reqClosed, repClosed, pool, wpass, whash,
                   handles, agg, pulled, consumed, reqCloses, repCloses>>

\* ------------------------------------------------------ aggregateHashes
Put(t, k, v) == [x \in (DOMAIN t) \cup {k} |-> IF x = k THEN v ELSE t[x]]
Delete(t, k) == [x \in (DOMAIN t) \ {k} |-> t[x]]

\* A slip: a fingerprint seen for the first time goes straight to collisions.
AggregateNoSingles(t, response) ==
    IF response.Hash \in DOMAIN t.collisions
    THEN [t EXCEPT !.collisions =
            Put(@, response.Hash, Append(@[response.Hash], response.Pathname))]
    ELSE [t EXCEPT !.collisions = Put(@, response.Hash, <<response.Pathname>>)]

\* A slip: the promotion forgets the path that was waiting in singles.
AggregateDropsFirst(t, response) ==
    IF response.Hash \in DOMAIN t.collisions
    THEN [t EXCEPT !.collisions =
            Put(@, response.Hash, Append(@[response.Hash], response.Pathname))]
    ELSE IF response.Hash \in DOMAIN t.singles
    THEN [singles |-> Delete(t.singles, response.Hash),
          collisions |-> Put(t.collisions, response.Hash, <<response.Pathname>>)]
    ELSE [t EXCEPT !.singles = Put(@, response.Hash, <<response.Pathname>>)]

\* A slip: the promotion leaves the fingerprint in singles.
AggregateKeepsSingle(t, response) ==
    IF response.Hash \in DOMAIN t.collisions
    THEN [t EXCEPT !.collisions =
            Put(@, response.Hash, Append(@[response.Hash], response.Pathname))]
    ELSE IF response.Hash \in DOMAIN t.singles
    THEN [t EXCEPT !.collisions = Put(@, response.Hash,
                             Append(t.singles[response.Hash], response.Pathname))]
    ELSE [t EXCEPT !.singles = Put(@, response.Hash, <<response.Pathname>>)]

\* The body of the range loop, on the two maps.
Aggregate(t, response) ==
    IF response.Hash \in DOMAIN t.collisions
    THEN [t EXCEPT !.collisions =
            Put(@, response.Hash, Append(@[response.Hash], response.Pathname))]
    ELSE IF response.Hash \in DOMAIN t.singles
    THEN [singles |-> Delete(t.singles, response.Hash),
          collisions |-> Put(t.collisions, response.Hash,
                             Append(t.singles[response.Hash], response.Pathname))]
    ELSE [t EXCEPT !.singles = Put(@, response.Hash, <<response.Pathname>>)]

\* for response := range replies: a response is received and bucketed.
AggRecv ==
    /\ Running
    /\ hashRepCh # <<>>
    /\ LET response == Head(hashRepCh)
           t == Aggregate([singles |-> singles, collisions |-> collisions], response)
       IN  /\ singles' = t.singles
           /\ collisions' = t.collisions
           /\ consumed' = Append(consumed, response)
    /\ hashRepCh' = Tail(hashRepCh)
    /\ UNCHANGED <<config, walker, hashReqCh, reqClosed, repClosed, pool, wstate, aggPc,
                   collidingFiles, duplicates, crashed, pulled, replied, reqCloses, repCloses, lateSend>>

\* A slip: the loop polls and leaves as soon as the reply channel is empty.
AggReturnWhenEmpty ==
    /\ Running
    /\ hashRepCh = <<>>
    /\ collidingFiles' = hashingFiles - Cardinality(DOMAIN singles)
    /\ duplicates' = (hashingFiles - Cardinality(DOMAIN singles)) - Cardinality(DOMAIN collisions)
    /\ aggPc' = "done"
    /\ UNCHANGED <<config, walker, chans, pool, wstate, singles, collisions, crashed, hist>>

\* The range loop ends: the reply channel is closed and drained.  The counts
\* are computed and logged, and collisions is returned.
AggReturn ==
    /\ Running
    /\ hashRepCh = <<>> /\ repClosed
    /\ collidingFiles' = hashingFiles - Cardinality(DOMAIN singles)
    /\ duplicates' = (hashingFiles - Cardinality(DOMAIN singles)) - Cardinality(DOMAIN collisions)
    /\ aggPc' = "done"
    /\ UNCHANGED <<config, walker, chans, pool, wstate, singles, collisions, crashed, hist>>

\* ------------------------------------------------------------------ Next
Next ==
    \/ WalkPanic \/ Crash \/ WalkDir \/ WalkError \/ WalkUnderSized \/ WalkEligible
    \/ WalkSend \/ WalkClose
    \/ PoolStart \/ PoolClose
    \/ \E w \in 1..Threads :
        WorkerRecv(w) \/ WorkerExit(w) \/ WorkerOpen(w) \/ WorkerCopy(w) \/ WorkerSend(w)
    \/ AggRecv \/ AggReturn

Spec == Init /\ [][Next]_vars

\* The Go scheduler runs every goroutine that can take a step, and a panic
\* that has unwound its goroutine ends the process.
WalkerStep ==
    WalkPanic \/ WalkDir \/ WalkError \/ WalkUnderSized \/ WalkEligible \/ WalkSend \/ WalkClose
PoolStep == PoolStart \/ PoolClose
WorkerStep(w) ==
    /\ w \in 1..Threads
    /\ (WorkerRecv(w) \/ WorkerExit(w) \/ WorkerOpen(w) \/ WorkerCopy(w) \/ WorkerSend(w))
AggStep == AggRecv \/ AggReturn

Fairness ==
    /\ WF_vars(WalkerStep)
    /\ WF_vars(Crash)
    /\ WF_vars(PoolStep)
    /\ \A w \in 1..Max(ThreadCounts) : WF_vars(WorkerStep(w))
    /\ WF_vars(AggStep)

FairSpec == Init /\ [][Next]_vars /\ Fairness

\* The runs of the trees that yield no request (directories, and files that
\* are empty or below the minimum), and beside them the runs of the trees
\* shorter than the longest.
EmptyRunInit ==
    /\ Init
    /\ \/ Len(tree) < MaxEntries
       \/ \A i \in Ids :
            \/ tree[i].kind = "dir"
            \/ tree[i].kind = "file" /\ ~tree[i].err /\ IsUnderSized(tree[i].size)

EmptyRunSpec == EmptyRunInit /\ [][Next]_vars /\ Fairness


\* ------------------------------------------------- vocabulary of the claims
Range(f) == {f[x] : x \in DOMAIN f}

\* The entries walkFn has finished with (a blocked send has done its counting).
Processed == {i \in Ids : i < walkPos \/ (i = walkPos /\ walkerPc = "send")}

IsFile(i) == tree[i].kind = "file" /\ ~tree[i].err
Eligible(i) == IsFile(i) /\ ~(tree[i].size = 0 \/ tree[i].size < MinBytes)
UnderSized(i) == IsFile(i) /\ (tree[i].size = 0 \/ tree[i].size < MinBytes)

\* The requests walkFn has put on the request channel.
Pushed == {i \in Ids : i < walkPos /\ Eligible(i)}

\* The fingerprints of the results consumed so far, and those carrying one.
SeenHashes == {consumed[n].Hash : n \in DOMAIN consumed}
Carrying(h) == {n \in DOMAIN consumed : consumed[n].Hash = h}

\* The pathnames of the consumed results carrying h, in arrival order.
RECURSIVE PathsOf(_, _)
PathsOf(h, rs) ==
    IF rs = <<>> THEN <<>>
    ELSE IF Head(rs).Hash = h THEN <<Head(rs).Pathname>> \o PathsOf(h, Tail(rs))
    ELSE PathsOf(h, Tail(rs))

\* Every pathname held in a table.
Held(t) == UNION {Range(t[k]) : k \in DOMAIN t}

AggDone == aggPc = "done"

\* --------------------------------------------------------------------- C1
\* C1: in every state of the aggregation loop every bucket of collisions
\* holds at least 2 paths, and a fingerprint carried by exactly one consumed
\* result is a key of singles and not of collisions.
C1_NoSingletonBucket ==
    /\ \A k \in DOMAIN collisions : Len(collisions[k]) >= 2
    /\ \A h \in SeenHashes :
        Cardinality(Carrying(h)) = 1 => h \in DOMAIN singles /\ h \notin DOMAIN collisions

\* A bucket of three beside a single, the loop still running.
C1_Witness ==
    /\ aggPc = "loop"
    /\ \E k \in DOMAIN collisions : Len(collisions[k]) = 3
    /\ Len(consumed) = 3

C1_WitnessMixed ==
    /\ DOMAIN singles # {}
    /\ DOMAIN collisions # {}

\* --------------------------------------------------------------------- C2
\* C2: when aggregateHashes returns, the keys of the table are exactly the
\* fingerprints carried by two or more consumed results, and each bucket is
\* the pathnames of the results carrying its key, one entry per result.
C2_FinalTable ==
    AggDone =>
        /\ DOMAIN collisions = {h \in SeenHashes : Cardinality(Carrying(h)) >= 2}
        /\ \A k \in DOMAIN collisions : collisions[k] = PathsOf(k, consumed)

\* Returned with a bucket and with a fingerprint that stayed single.
C2_Witness ==
    /\ AggDone
    /\ DOMAIN collisions # {}
    /\ \E h \in SeenHashes : Cardinality(Carrying(h)) = 1

\* --------------------------------------------------------------------- C3
\* C3: no request is received by two workers, sent twice on the reply
\* channel or consumed twice; and when aggregateHashes returns, both
\* channels are empty, every request pushed was received by one worker, and
\* every request whose hashing succeeds was sent and consumed exactly once,
\* while nothing else was.
TimesConsumed(i) == Cardinality({n \in DOMAIN consumed : consumed[n].id = i})

C3_NoLostOrDuplicatedWork ==
    /\ \A i \in Ids : pulled[i] <= 1 /\ replied[i] <= 1 /\ TimesConsumed(i) <= 1
    /\ \A i \in Ids : pulled[i] = 1 => i \in Pushed
    /\ AggDone =>
        /\ hashReqCh = <<>> /\ hashRepCh = <<>>
        /\ \A i \in Pushed : pulled[i] = 1
        /\ \A i \in Pushed :
            IF hashRequest(NewRequest(i)) # Nil
            THEN replied[i] = 1 /\ TimesConsumed(i) = 1
            ELSE replied[i] = 0 /\ TimesConsumed(i) = 0

\* Returned after three requests were pushed, hashed, sent and consumed.
C3_Witness ==
    /\ AggDone
    /\ Len(consumed) = 3
    /\ Cardinality(Pushed) = 3

\* --------------------------------------------------------------------- C4
\* C4: close(replies) runs at most once and only when every worker has
\* exited, and no worker sends on the closed reply channel.
C4_CloseAfterWorkers ==
    /\ repCloses <= 1
    /\ repClosed <=> repCloses = 1
    /\ repClosed => \A w \in 1..Threads : wpc[w] = "exited"
    /\ ~lateSend

\* Closed after two workers both sent results.
C4_Witness ==
    /\ repClosed
    /\ Threads = 2
    /\ Len(consumed) + Len(hashRepCh) >= 2


\* --------------------------------------------------------------------- C6
\* The run with one worker: requests are hashed and bucketed one after the
\* other in walk order, up to the entry (if any) at which the walk panics.
RECURSIVE OneWorkerRun(_, _)
OneWorkerRun(i, t) ==
    IF i > Len(tree) \/ tree[i].kind = "nil" THEN t
    ELSE IF Eligible(i) /\ hashRequest(NewRequest(i)) # Nil
    THEN OneWorkerRun(i + 1, Aggregate(t, hashRequest(NewRequest(i))))
    ELSE OneWorkerRun(i + 1, t)

OneWorkerTable == OneWorkerRun(1, [singles |-> <<>>, collisions |-> <<>>]).collisions

\* A table with each bucket as the set of its paths.
AsSets(t) == [k \in DOMAIN t |-> Range(t[k])]

\* C6: whatever the worker count and the interleaving, the table returned
\* has the fingerprints of the one-worker run of the same tree and, for each,
\* the same set of paths; with one worker it is that table.
C6_SameTableAnyWorkerCount ==
    AggDone =>
        /\ AsSets(collisions) = AsSets(OneWorkerTable)
        /\ Threads = 1 => collisions = OneWorkerTable

\* Two workers returned the one-worker buckets in another order of paths.
C6_Witness ==
    /\ AggDone
    /\ Threads = 2
    /\ DOMAIN collisions # {}
    /\ collisions # OneWorkerTable

\* --------------------------------------------------------------------- C8
\* C8: after each entry walkFn has processed, totalFiles = underSizedFiles +
\* hashingFiles + the entries skipped for an access error, and totalFiles
\* counts the entries that are not directories.
C8_TotalFiles ==
    /\ totalFiles = underSizedFiles + hashingFiles + errSkipped
    /\ totalFiles = Cardinality({i \in Processed : tree[i].kind = "file"})
    /\ errSkipped = Cardinality({i \in Processed : tree[i].kind = "file" /\ tree[i].err})

\* The walk ended having met a directory, an access error and a hashed file.
C8_Witness ==
    /\ walkerPc = "done"
    /\ errSkipped = 1 /\ hashingFiles = 1 /\ totalFiles = 2
    /\ Len(tree) = 3

\* --------------------------------------------------------------------- C9
\* Every entry is a directory or a file that is read without an error.
AllReadable == \A i \in Ids : tree[i].kind = "dir" \/ (IsFile(i) /\ tree[i].failAt = "none")

BucketsOf(i) == {k \in DOMAIN collisions : ReplaceAll(PathAt(i)) \in Range(collisions[k])}
SameBucket(i, j) == BucketsOf(i) \cap BucketsOf(j) # {}
SameContent(i, j) == tree[i].size = tree[j].size /\ tree[i].content = tree[j].content
SameDigests(i, j) ==
    /\ tree[i].size = tree[j].size
    /\ Sha512Sum(tree[i].content) = Sha512Sum(tree[j].content)
    /\ Thorough => Md5Sum(tree[i].content) = Md5Sum(tree[j].content)

InFlight ==
    {hashReqCh[n].id : n \in DOMAIN hashReqCh} \cup {hashRepCh[n].id : n \in DOMAIN hashRepCh}
        \cup {wreq[w].id : w \in {x \in 1..Threads : wreq[x] # Nil}}
        \cup (IF pending = Nil THEN {} ELSE {pending.id})

\* C10: a file of size 0 or of a size below the minimum is counted as
\* undersized once walkFn has processed it, and is never on a channel, in a
\* worker's hands, in singles or in a bucket.
C10_UnderSizedNeverHashed ==
    /\ underSizedFiles = Cardinality({i \in Processed : UnderSized(i)})
    /\ \A i \in Ids :
        UnderSized(i) =>
            /\ i \notin InFlight
            /\ pulled[i] = 0 /\ replied[i] = 0 /\ TimesConsumed(i) = 0
            /\ ReplaceAll(PathAt(i)) \notin Held(singles) \cup Held(collisions)

\* Two identical files below a positive minimum, and a hashed file beside them.
C10_Witness ==
    /\ AggDone
    /\ underSizedFiles = 2
    /\ Len(consumed) = 1
    /\ \E i, j \in Ids :
        i # j /\ UnderSized(i) /\ UnderSized(j) /\ SameContent(i, j) /\ tree[i].size > 0

\* Two empty files under a minimum of zero.
C10_WitnessEmpty ==
    /\ AggDone /\ MinBytes = 0
    /\ \E i, j \in Ids : i # j /\ UnderSized(i) /\ UnderSized(j) /\ tree[i].size = 0


\* --------------------------------------------------------------------- C5
\* The pipeline has run to completion: the request channel is closed, every
\* worker has exited, the reply channel is closed and aggregateHashes has
\* returned.
Completed ==
    /\ reqClosed
    /\ \A w \in 1..Threads : wpc[w] = "exited"
    /\ repClosed
    /\ AggDone

\* C5: for every tree and worker count the pipeline runs to completion.
C5_RunsToCompletion == <>Completed

\* C5 short of the panic: a walk that meets no entry without file
\* information runs to completion, whatever blocks on a full channel on the
\* way.
NoNilInfo == \A i \in Ids : tree[i].kind # "nil"
C5_CompletesUnlessPanic == NoNilInfo => <>Completed

\* The walker is blocked on the full request channel.
WalkerBlocked == walkerPc = "send" /\ Len(hashReqCh) = ReqCap

\* A worker is blocked on the full reply channel.
WorkerBlocked ==
    /\ Len(hashRepCh) = Threads * RepFactor
    /\ \E w \in 1..Threads : wpc[w] = "send"

\* --------------------------------------------------------------------- C7
\* The tree holds directories and undersized files only.
ZeroRequests == \A i \in Ids : tree[i].kind = "dir" \/ UnderSized(i)

Finished == Completed /\ DOMAIN collisions = {} /\ duplicates = 0

\* C7: when the tree yields no request, nothing is ever on a channel or in a
\* worker's hands, and eventually the request channel is closed, every worker
\* has exited, the reply channel is closed and aggregateHashes has returned an
\* empty table and a duplicate count of zero.
C7_EmptyRunFinishes ==
    /\ [](ZeroRequests => (InFlight = {} /\ hashingFiles = 0))
    /\ (ZeroRequests => <>Finished)

\* Two workers, two undersized files, all of it finished.
C7_Witness ==
    /\ ZeroRequests /\ Finished
    /\ Threads = 2
    /\ underSizedFiles = 2


\* -------------------------------------------------------------------- C11
\* The Digest Engine fails for the request of entry i: os.Open or io.Copy
\* fails in the sha512 pass, or in the md5 pass of thorough mode.
DigestFails(i) ==
    /\ Eligible(i)
    /\ \/ tree[i].failAt \in {"open1", "read1"}
       \/ Thorough /\ tree[i].failAt = "read2"

\* No reply for a request whose digest fails, no second attempt, and its
\* path in neither map.
C11_Dropped ==
    \A i \in Ids :
        DigestFails(i) =>
            /\ pulled[i] <= 1
            /\ replied[i] = 0 /\ TimesConsumed(i) = 0
            /\ \A n \in DOMAIN hashRepCh : hashRepCh[n].id # i
            /\ \A w \in 1..Threads : (wreq[w] # Nil /\ wreq[w].id = i) => wpc[w] \in {"open", "copy"}
            /\ ReplaceAll(PathAt(i)) \notin Held(singles) \cup Held(collisions)
            /\ PathAt(i) \notin Held(singles) \cup Held(collisions)

\* The worker that meets the failure is at the receive again, empty-handed.
C11_WorkerGoesOn ==
    \A w \in 1..Threads :
        (wreq[w] # Nil /\ DigestFails(wreq[w].id) /\ wpc'[w] \notin {"open", "copy"}) =>
            wpc'[w] = "recv" /\ wreq'[w] = Nil

C11_WitnessOpen ==
    /\ Completed
    /\ \E i \in Ids : DigestFails(i) /\ tree[i].failAt = "open1" /\ pulled[i] = 1
    /\ \E i \in Ids : DigestFails(i) /\ tree[i].failAt = "read1" /\ pulled[i] = 1

\* -------------------------------------------------------------------- C12
\* The entries filepath.Walk reports with an access error.
AccessError(i) == tree[i].err

\* C12: an entry reported with an access error, with or without file
\* information, is counted in totalFiles and skipped, the walk goes on, and
\* the walker closes the request channel in the ordinary way: the walker
\* never panics and the process never dies.
C12_AccessErrorNotFatal ==
    /\ walkerPc # "panic" /\ ~crashed
    /\ \A i \in Ids : (AccessError(i) /\ i \notin Pushed) => pulled[i] = 0
    /\ walkerPc = "done" =>
        /\ walkPos = Len(tree) + 1
        /\ totalFiles >= Cardinality({i \in Ids : AccessError(i)})

\* What does hold: an access error on an entry that comes with the
\* information of a file is counted, skipped and not fatal.
C12_ErrorWithInfoSkipped ==
    \A i \in Processed :
        (tree[i].kind = "file" /\ tree[i].err) =>
            /\ pulled[i] = 0 /\ i \notin InFlight
            /\ totalFiles >= Cardinality({j \in Processed : tree[j].kind = "file" /\ tree[j].err})

\* -------------------------------------------------------------------- C13
\* The number of paths held in the buckets of a table.
RECURSIVE PathCountOver(_, _)
PathCountOver(t, keys) ==
    IF keys = {} THEN 0
    ELSE LET k == CHOOSE x \in keys : TRUE
         IN  Len(t[k]) + PathCountOver(t, keys \ {k})

PathCount(t) == PathCountOver(t, DOMAIN t)

\* C13: at the end of every scan the colliding-files count is the number of
\* paths held in collision buckets and the duplicate count is that number
\* minus the number of buckets.
C13_Counts ==
    AggDone =>
        /\ collidingFiles = PathCount(collisions)
        /\ duplicates = PathCount(collisions) - Cardinality(DOMAIN collisions)

\* What does hold: the counts are right when no enqueued file was dropped.
C13_CountsWithoutDrops ==
    (AggDone /\ \A i \in Ids : ~DigestFails(i)) =>
        /\ collidingFiles = PathCount(collisions)
        /\ duplicates = PathCount(collisions) - Cardinality(DOMAIN collisions)

\* -------------------------------------------------------------------- C14
\* The files that get a fingerprint in the given mode.
Hashable(i, thorough) ==
    /\ Eligible(i)
    /\ \A j \in 1..i : tree[j].kind # "nil"
    /\ hashRequestWith(NewRequest(i), thorough) # Nil

FingerprintWith(i, thorough) == hashRequestWith(NewRequest(i), thorough).Hash

\* The buckets of the tree in the given mode, each as its set of paths.
GroupsWith(thorough) ==
    LET on == {k \in Ids : Hashable(k, thorough)}
        print == [k \in on |-> FingerprintWith(k, thorough)]
        group(i) == {ReplaceAll(PathAt(j)) : j \in {k \in on : print[k] = print[i]}}
    IN  {group(i) : i \in {k \in on : Cardinality(group(k)) >= 2}}

BucketSets == {Range(collisions[k]) : k \in DOMAIN collisions}

Refines(A, B) == \A a \in A : \E b \in B : a \subseteq b

\* The number of dot-separated segments of a fingerprint.
Segments(h) == 1 + Cardinality({n \in DOMAIN h : h[n] = "."})

\* Two files of one size and one sha512 digest whose md5 digests differ.
PrimaryOnlyTwins(i, j) ==
    /\ i # j /\ Hashable(i, TRUE) /\ Hashable(j, TRUE)
    /\ tree[i].size = tree[j].size
    /\ Sha512Sum(tree[i].content) = Sha512Sum(tree[j].content)
    /\ Md5Sum(tree[i].content) # Md5Sum(tree[j].content)

\* C14: thorough mode appends exactly one segment to every fingerprint (seen
\* on each result as the aggregator takes it, consumed being append-only), and
\* its buckets refine the buckets of the same tree with thorough off: files
\* together with thorough on are together with it off, and files of equal
\* sha512 and different md5 digest share a bucket exactly when it is off.
C14_ThoroughRefines ==
    /\ \A n \in DOMAIN consumed : n = Len(consumed) =>
           Segments(consumed[n].Hash) = Segments(<<"size", ".", "sha512">>) + (IF Thorough THEN 1 ELSE 0)
    /\ AggDone =>
           LET thoroughOn == GroupsWith(TRUE)
               thoroughOff == GroupsWith(FALSE)
           IN  /\ \A n \in DOMAIN consumed :
                      consumed[n].Hash = FingerprintWith(consumed[n].id, Thorough)
               /\ \A i \in Ids : Hashable(i, TRUE) =>
                      /\ Hashable(i, FALSE)
                      /\ Segments(FingerprintWith(i, TRUE)) = Segments(FingerprintWith(i, FALSE)) + 1
                      /\ SubSeq(FingerprintWith(i, TRUE), 1, Len(FingerprintWith(i, FALSE)) + 1)
                             = FingerprintWith(i, FALSE) \o <<".">>
               /\ Refines(thoroughOn, thoroughOff)
               /\ BucketSets = (IF Thorough THEN thoroughOn ELSE thoroughOff)
               /\ Thorough => Refines(BucketSets, thoroughOff)
               /\ ~Thorough => Refines(thoroughOn, BucketSets)
               /\ \A i, j \in Ids : PrimaryOnlyTwins(i, j) => (SameBucket(i, j) <=> ~Thorough)

\* Thorough on: the twins were both hashed and are apart, one of them alone
\* and the other in a bucket with a true duplicate.
C14_Witness ==
    /\ AggDone /\ Thorough
    /\ \E i, j \in Ids : PrimaryOnlyTwins(i, j) /\ ~SameBucket(i, j) /\ BucketsOf(j) # {}
                         /\ ReplaceAll(PathAt(i)) \in Held(singles)

\* Thorough off: the twins share a bucket that thorough mode would split.
C14_WitnessOff ==
    /\ AggDone /\ ~Thorough
    /\ \E i, j \in Ids : PrimaryOnlyTwins(i, j) /\ SameBucket(i, j)
    /\ GroupsWith(TRUE) # BucketSets

\* -------------------------------------------------------------------- C15
\* The entries filepath.Walk hands to walkFn before the walk ends.
Walked == {i \in Ids : \A j \in 1..i : tree[j].kind # "nil"}

\* The value hashingFiles has when the walker has made its last increment.
FinalHashingFiles == Cardinality({i \in Walked : Eligible(i)})

\* The value of hashingFiles that aggregateHashes read at main.go:197.
HashingFilesRead == collidingFiles + Cardinality(DOMAIN singles)

\* C15: the walker's increments of hashingFiles all come before the reply
\* channel is closed, hence before the aggregator's loop ends and it reads
\* the counter: the value it reads is the final one.
C15_ReadsFinalCount ==
    /\ repClosed =>
           /\ walkerPc \in {"done", "panic"} /\ pending = Nil
           /\ hashingFiles = FinalHashingFiles
    /\ AggDone =>
           /\ repClosed
           /\ HashingFilesRead = FinalHashingFiles

\* The aggregator read 3 after the walker's third increment, one of the
\* three files having been dropped.
C15_Witness ==
    /\ AggDone /\ walkerPc = "done"
    /\ HashingFilesRead = MaxEntries
    /\ Len(consumed) < MaxEntries

\* -------------------------------------------------------------------- C16
\* The loop of aggregateHashes run over a sequence of results.
RECURSIVE AggregateAll(_, _)
AggregateAll(rs, t) ==
    IF rs = <<>> THEN t ELSE AggregateAll(Tail(rs), Aggregate(t, Head(rs)))

EmptyTables == [singles |-> <<>>, collisions |-> <<>>]

\* Every order in which the results consumed could have arrived.
Orderings(rs) ==
    LET perms == {f \in [DOMAIN rs -> DOMAIN rs] : \A a, b \in DOMAIN rs : f[a] = f[b] => a = b}
    IN  {[n \in DOMAIN rs |-> rs[f[n]]] : f \in perms}

\* C16: the fingerprints of the table returned and the set of paths under
\* each depend on the multiset of results only: every ordering of the results
\* consumed gives them, and gives the same unmatched files.
C16_OrderInsensitive ==
    AggDone =>
        \A rs \in Orderings(consumed) :
            /\ AsSets(AggregateAll(rs, EmptyTables).collisions) = AsSets(collisions)
            /\ AsSets(AggregateAll(rs, EmptyTables).singles) = AsSets(singles)

\* Three results of which two collide arrived out of walk order, and another
\* order of arrival lists the bucket's paths the other way round.
C16_Witness ==
    /\ AggDone /\ Len(consumed) = MaxEntries
    /\ consumed[1].id > consumed[2].id
    /\ DOMAIN collisions # {} /\ DOMAIN singles # {}
    /\ \E rs \in Orderings(consumed) : AggregateAll(rs, EmptyTables).collisions # collisions

\* -------------------------------------------------------------------- C17
\* A step that closes the request channel, one that pushes a request on it,
\* and one in which worker w leaves its range loop.
ClosesRequests == reqCloses' # reqCloses
PushesRequest == Len(hashReqCh') > Len(hashReqCh)
LeavesLoop(w) == wpc[w] # "exited" /\ wpc'[w] = "exited"

C17_Step ==
    /\ ClosesRequests =>
           /\ walkerPc = "walk" /\ walkerPc' \in {"done", "panic"}
           /\ pending = Nil /\ reqCloses = 0 /\ ~reqClosed
           /\ UNCHANGED <<hashReqCh, walkPos, pool, wstate, agg>>
    /\ PushesRequest => ~reqClosed /\ ~reqClosed' /\ walkerPc = "send"
    /\ reqClosed => reqClosed' /\ walkerPc' = walkerPc /\ walkPos' = walkPos
    /\ \A w \in 1..Threads : LeavesLoop(w) => reqClosed /\ hashReqCh = <<>>

C17_State ==
    /\ reqCloses <= 1
    /\ reqClosed <=> reqCloses = 1
    /\ reqClosed <=> walkerPc \in {"done", "panic"}
    /\ walkerPc = "done" => walkPos = Len(tree) + 1
    /\ \A w \in 1..Threads : wpc[w] = "exited" => reqClosed /\ hashReqCh = <<>>

\* C17: only the walker closes the request channel, once, when no walkFn
\* call is left to come; nothing is pushed once it is closed; and a worker
\* leaves its loop only with the channel closed and empty.
C17_CloseOnceAfterWalk == []C17_State /\ [][C17_Step]_vars

\* The channel was closed with a request still in it while one worker was
\* hashing; both workers have since left the loop.
C17_Witness ==
    /\ reqCloses = 1 /\ walkerPc = "done" /\ Threads = 2
    /\ \A w \in 1..Threads : wpc[w] = "exited"
    /\ \E i, j \in Ids : i # j /\ pulled[i] = 1 /\ pulled[j] = 1

\* Closed, not yet drained, a worker still at the receive.
C17_WitnessPending ==
    /\ reqClosed /\ hashReqCh # <<>>
    /\ \E w \in 1..Threads : wpc[w] = "recv"

\* -------------------------------------------------------------------- C18
\* The number of file handles open in the process.
RECURSIVE OpenHandles(_)
OpenHandles(w) == IF w = 0 THEN 0 ELSE handles[w] + OpenHandles(w - 1)

\* Worker w is inside hashData, between os.Open and the return.
InHashData(w) == wpc[w] = "copy"

C18_State ==
    /\ \A w \in 1..Threads : handles[w] = (IF InHashData(w) THEN 1 ELSE 0)
    /\ OpenHandles(Threads) <= Threads
    /\ (\A w \in 1..Threads : wpc[w] = "exited") => OpenHandles(Threads) = 0

\* hashData returns, with a digest or with an error: its handle is closed.
C18_Step ==
    \A w \in 1..Threads :
        (InHashData(w) /\ (wpc'[w] # "copy" \/ wpass'[w] # wpass[w])) =>
            handles[w] = 1 /\ handles'[w] = 0

\* C18: the handle hashData opens is closed when it returns, on success and
\* on a failed read alike; a worker holds at most one handle, so at most
\* Threads are open at any moment, in thorough mode too; and none is open
\* once every worker has exited.
C18_HandlesReleased == []C18_State /\ [][C18_Step]_vars

\* Thorough mode, two workers each with a handle open, one of them in the
\* md5 pass, after a file was dropped on a failed read.
C18_Witness ==
    /\ Thorough /\ Threads = 2
    /\ OpenHandles(Threads) = 2
    /\ \E w \in 1..Threads : wpass[w] = 2
    /\ \E i \in Ids : tree[i].failAt = "read1" /\ pulled[i] = 1 /\ i \notin InFlight

\* All workers gone after a failed md5 read, nothing left open.
C18_WitnessExited ==
    /\ \A w \in 1..Threads : wpc[w] = "exited"
    /\ \E i \in Ids : tree[i].failAt = "read2" /\ pulled[i] = 1

\* -------------------------------------------------------------------- C19
\* The ids of the request records in existence, place by place: with the
\* walker about to push, on the request channel, with the workers, on the
\* reply channel, with the aggregator.
IdsOf(rs) == [n \in DOMAIN rs |-> rs[n].id]
WorkerIds ==
    LET RECURSIVE upto(_)
        upto(w) == IF w = 0 THEN <<>>
                   ELSE upto(w - 1) \o (IF wreq[w] = Nil THEN <<>> ELSE <<wreq[w].id>>)
    IN  upto(Threads)
HeldIds ==
    (IF pending = Nil THEN <<>> ELSE <<pending.id>>) \o IdsOf(hashReqCh) \o WorkerIds
        \o IdsOf(hashRepCh) \o IdsOf(consumed)

\* The number the first n characters of d, decimal digits, denote.
DigitSet == {"0", "1", "2", "3", "4", "5", "6", "7", "8", "9"}
DigitValue == [c \in DigitSet |-> CHOOSE v \in 0..9 : Digits[v + 1] = c]

RECURSIVE ParseDecimal(_, _)
ParseDecimal(d, n) ==
    IF n = 0 THEN 0 ELSE 10 * ParseDecimal(d, n - 1) + DigitValue[d[n]]

\* A fingerprint that opens with PadWidth decimal digits spelling size,
\* followed by a dot and a non-empty digest.
WellFormed(hash, size) ==
    /\ Len(hash) > PadWidth + 1
    /\ \A n \in 1..PadWidth : hash[n] \in DigitSet
    /\ ParseDecimal(hash, PadWidth) = size
    /\ hash[PadWidth + 1] = "."

\* A record as hashRequest leaves it.
Written(r) ==
    /\ r.Size = tree[r.id].size /\ r.Pathname = ReplaceAll(PathAt(r.id))
    /\ r.Hash # <<>> /\ WellFormed(r.Hash, r.Size)

\* One holder at a time.
C19_State == Cardinality(Range(HeldIds)) = Len(HeldIds)

\* The hand-offs.  The walker pushes the record as it built it and lets go
\* of it; a worker receives it as it was pushed, writes it only in the step
\* that ends hashRequest, and sends it as written; the aggregator receives
\* what was sent, written, and what it has received stays as it was.
C19_Step ==
    /\ pending # Nil => pending = NewRequest(pending.id) /\ pending' \in {pending, Nil}
    /\ hashReqCh' # hashReqCh =>
           \/ /\ pending # Nil /\ hashReqCh' = Append(hashReqCh, pending) /\ pending' = Nil
           \/ /\ hashReqCh # <<>> /\ hashReqCh' = Tail(hashReqCh)
              /\ Head(hashReqCh) = NewRequest(Head(hashReqCh).id)
              /\ \E w \in 1..Threads : wreq[w] = Nil /\ wreq'[w] = Head(hashReqCh)
    /\ \A w \in 1..Threads : (wreq[w] # Nil /\ wreq'[w] # wreq[w]) =>
           \/ wreq'[w] = Nil
           \/ wpc[w] = "copy" /\ wpc'[w] = "send" /\ Written(wreq'[w])
    /\ (hashRepCh' # hashRepCh /\ consumed' = consumed) =>
           \E w \in 1..Threads : /\ wpc[w] = "send" /\ Written(wreq[w])
                                 /\ hashRepCh' = Append(hashRepCh, wreq[w])
    /\ consumed' # consumed =>
           /\ hashRepCh # <<>> /\ hashRepCh' = Tail(hashRepCh)
           /\ consumed' = Append(consumed, Head(hashRepCh))
           /\ Written(Head(hashRepCh))

\* C19: a request has one holder at a time, walker, then request channel,
\* then one worker, then reply channel, then aggregator; it is unwritten
\* while the walker or a channel holds it, the worker writes path and
\* fingerprint before it sends, what is sent travels unchanged, and every
\* record the aggregator receives has a non-empty fingerprint whose leading
\* 16 digits spell the record's size.
C19_OwnershipTransfer == []C19_State /\ [][C19_Step]_vars

\* A record of size 2 consumed, one on the reply channel, and a third still
\* unwritten with a worker.
C19_Witness ==
    /\ \E n \in DOMAIN consumed : consumed[n].Size = MaxSize /\ consumed[n].Pathname # PathAt(consumed[n].id)
    /\ hashRepCh # <<>>
    /\ \E w \in 1..Threads : wpc[w] = "copy"

\* -------------------------------------------------------------------- C20
\* C20: at every point of the aggregation loop no fingerprint is a key of
\* both maps, every singles entry is one path, and the paths of the two maps
\* together are as many as the results consumed.
C20_LoopInvariant ==
    /\ DOMAIN singles \cap DOMAIN collisions = {}
    /\ \A k \in DOMAIN singles : Len(singles[k]) = 1
    /\ PathCount(singles) + PathCount(collisions) = Len(consumed)
    /\ Held(singles) \cap Held(collisions) = {}

\* In the loop, after a promotion and with an unmatched file waiting.
C20_Witness ==
    /\ aggPc = "loop" /\ Len(consumed) = MaxEntries
    /\ DOMAIN singles # {} /\ DOMAIN collisions # {}

====
